---- MODULE Spec2Model ----
(***************************************************************************)
(* FloatChat frontend: the mock auth context (AuthProvider, local          *)
(* storage), the route gate (ProtectedRoute under App's routes), the chat  *)
(* page (ChatbotPage) and the dashboard (DashboardPage), as state          *)
(* machines.  One specification per component: SpecAuth, SpecChat and      *)
(* SpecDash; the variables of the other components keep their initial      *)
(* values.                                                                 *)
(***************************************************************************)
EXTENDS Integers, Sequences, FiniteSets, TLC

VARIABLES
  \* ---- clock (Date.now) ----
  now,
  \* ---- AuthProvider ----
  user,          \* useState<User | null>(null)
  token,         \* useState<string | null>(null)
  loading,       \* useState(true)
  localStorage,  \* the two keys floatchat_token / floatchat_user
  pending,       \* signIn / signUp calls waiting on their 1000 ms timeout
  authMounted,   \* whether the provider's mount effect has run
  \* ---- router ----
  location,      \* current path
  view,          \* element the matched route renders
  \* ---- history of the auth session (for stating the claims) ----
  reloads,       \* number of page reloads so far
  session,       \* last writer of the stored session: signIn, signOut or none
  \* ---- DashboardPage ----
  selectedParameter,  \* useState('temperature')
  dateRange,          \* useState('6months')
  selectedRegion,     \* useState('global')
  mapFigure,          \* useState<any | null>(null)
  chartFigure,        \* useState<any | null>(null)
  isLoading,          \* useState<boolean>(true)
  error,              \* useState<string | null>(null)
  dashMounted,        \* whether the dashboard's first effect has run
  vizInFlight,        \* POST /visualize requests not yet settled
  \* ---- history of the dashboard's requests (for stating the claims) ----
  vizIssued,          \* number of POST /visualize requests issued
  filterChanges,      \* number of changes of a filter value
  vizOverlap,         \* whether the latest request was issued while another was in flight
  lastViz,            \* the request settled most recently, with its response
  \* ---- ChatbotPage ----
  messages,           \* useState<Message[]>([])
  inputValue,         \* useState("")
  isTyping,           \* useState(false)
  conversations,      \* useState<Conversation[]>([])
  activeChatId,       \* useState<string | null>(null)
  connectionStatus,   \* useState('checking')
  chatMounted,        \* whether the page's first effect has run
  healthInFlight,     \* whether the GET /health of checkConnection is unsettled
  chatInFlight,       \* POST /chat requests not yet settled
  \* ---- history of the chat's requests (for stating the claims) ----
  chatIssued,         \* number of POST /chat requests issued
  sendsAccepted,      \* number of Send actions that passed the handler's guards
  deletedChatId       \* id of the conversation handleDeleteChat removed last

authVars == <<user, token, loading, localStorage, pending, authMounted,
              location, view, reloads, session>>

dashVars == <<selectedParameter, dateRange, selectedRegion, mapFigure, chartFigure,
              isLoading, error, dashMounted, vizInFlight, vizIssued, filterChanges,
              vizOverlap, lastViz>>

chatVars == <<messages, inputValue, isTyping, conversations, activeChatId,
              connectionStatus, chatMounted, healthInFlight, chatInFlight, chatIssued,
              sendsAccepted, deletedChatId>>

vars == <<now, authVars, dashVars, chatVars>>

-----------------------------------------------------------------------------
\* Bounds of the model

MaxClock == 1
MaxPending == 2
MaxReloads == 2
MaxViz == 2
MaxChats == 2
MaxMessages == 3
MaxSends == 2

-----------------------------------------------------------------------------
\* JavaScript values

\* null / undefined / absent key
Null == [null |-> TRUE]

\* `x ? a : b`, `a && b` on the values the model holds: null is falsy,
\* objects and the non-empty strings the program builds are truthy
Truthy(v) == v # Null

\* A JavaScript string, as the sequence of its parts
Str(chars) == [str |-> chars]

\* the character the sign-in code splits e-mail addresses at
At == "@"

\* The e-mail addresses entered in the sign-in form, as character sequences:
\* with a local part and a domain, without any '@', and starting with '@'
Emails == { Str(<<"a", At, "x">>), Str(<<"b">>), Str(<<At, "c">>) }

Passwords == { "pw1", "pw2" }

\* index of the first '@' of s, or Len(s) + 1 when there is none
FirstAt(s) ==
  IF \E i \in 1..Len(s.str) : s.str[i] = At
  THEN CHOOSE i \in 1..Len(s.str) : s.str[i] = At /\ \A j \in 1..(i - 1) : s.str[j] # At
  ELSE Len(s.str) + 1

\* email.split('@')[0]
SplitAt0(s) == Str(SubSeq(s.str, 1, FirstAt(s) - 1))

-----------------------------------------------------------------------------
\* JSON.stringify / JSON.parse on the values stored under floatchat_user.
\* A JSON text is [json |-> "object", members |-> <<<<key, value>>, ...>>],
\* [json |-> "null"] (the text `null`) or [json |-> "invalid"] (not JSON).

UserKeys == <<"id", "email", "name">>

\* Faulty variant: a stringify that loses the name member
JSONStringify_DropsName(u) ==
  [json |-> "object", members |-> << <<"id", u.id>>, <<"email", u.email>> >>]

\* JSON.stringify(mockUser): the members in insertion order; a member whose
\* value is undefined is left out
JSONStringify(u) ==
  [json |-> "object",
   members |-> [i \in 1..Len(SelectSeq(UserKeys, LAMBDA k : u[k] # Null)) |->
                  LET k == SelectSeq(UserKeys, LAMBDA kk : u[kk] # Null)[i]
                  IN  <<k, u[k]>>]]

JSONValid(text) == text.json \in {"object", "null"}

\* value of member k of a parsed object text, undefined when absent
Member(text, k) ==
  IF \E i \in 1..Len(text.members) : text.members[i][1] = k
  THEN text.members[CHOOSE i \in 1..Len(text.members) : text.members[i][1] = k][2]
  ELSE Null

\* JSON.parse(text) for a valid text (an invalid one throws SyntaxError)
JSONParse(text) ==
  IF text.json = "null" THEN Null
  ELSE [k \in {text.members[i][1] : i \in 1..Len(text.members)} |-> Member(text, k)]

\* `token_${Date.now()}`
MockToken(t) == Str(<<"token_", t>>)

\* { id: `user_${Date.now()}`, email, name: email.split('@')[0] }
MockUser(email, t) ==
  [id |-> Str(<<"user_", t>>), email |-> email, name |-> SplitAt0(email)]

-----------------------------------------------------------------------------
\* Router

PublicPaths == {"/", "/signin", "/signup"}
ProtectedPaths == {"/chat", "/dashboard", "/reports", "/profile"}
Paths == PublicPaths \cup ProtectedPaths

\* element of each <Route path=... element=...>
PageOf(path) ==
  CASE path = "/" -> "HomePage"
    [] path = "/signin" -> "SignInPage"
    [] path = "/signup" -> "SignUpPage"
    [] path = "/chat" -> "ChatbotPage"
    [] path = "/dashboard" -> "DashboardPage"
    [] path = "/reports" -> "ReportsPage"
    [] path = "/profile" -> "ProfilePage"

ProtectedPages == { PageOf(p) : p \in ProtectedPaths }

\* Faulty variant: the gate without its loading branch
ProtectedRoute_IgnoresLoading(u, l) ==
  IF Truthy(u) THEN "Outlet" ELSE "Navigate"

\* ProtectedRoute: the loading placeholder, the child route, or <Navigate>
ProtectedRoute(u, l) ==
  IF l THEN "Loading"
  ELSE IF Truthy(u) THEN "Outlet" ELSE "Navigate"

\* What <Routes> renders at a path
RouteElement(path, u, l) ==
  IF path \in PublicPaths THEN PageOf(path)
  ELSE IF ProtectedRoute(u, l) = "Outlet" THEN PageOf(path)
  ELSE ProtectedRoute(u, l)

-----------------------------------------------------------------------------
\* Local storage contents a browser can hold when the page is opened

StoredTokens == { Null, MockToken(0) }
StoredUsers ==
  { Null,
    [json |-> "invalid"],
    [json |-> "null"],
    JSONStringify(MockUser(Str(<<"a", At, "x">>), 0)) }

AuthInit ==
  /\ user = Null
  /\ token = Null
  /\ loading = TRUE
  /\ pending = {}
  /\ authMounted = FALSE
  /\ localStorage \in [floatchat_token : StoredTokens, floatchat_user : StoredUsers]
  /\ location \in Paths
  /\ view = RouteElement(location, user, loading)
  /\ reloads = 0
  /\ session = [s |-> "none"]

\* Every render shows what the routes give for the new state
Render == view' = RouteElement(location', user', loading')

\* useEffect(() => {...}, []) of AuthProvider
AuthMountEffect ==
  /\ ~authMounted
  /\ authMounted' = TRUE
  /\ LET savedToken == localStorage.floatchat_token
         savedUser == localStorage.floatchat_user
     IN  IF Truthy(savedToken) /\ Truthy(savedUser)
         THEN IF JSONValid(savedUser)
              THEN /\ token' = savedToken
                   /\ user' = JSONParse(savedUser)
                   /\ UNCHANGED <<localStorage, session>>
              ELSE \* setToken ran before JSON.parse threw
                   /\ token' = savedToken
                   /\ user' = user
                   /\ localStorage' = [floatchat_token |-> Null, floatchat_user |-> Null]
                   /\ session' = [s |-> "none"]
         ELSE UNCHANGED <<token, user, localStorage, session>>
  /\ loading' = FALSE
  /\ UNCHANGED <<pending, location, reloads, now>>
  /\ Render
  /\ UNCHANGED <<dashVars, chatVars>>

\* handleSignIn of SignInPage up to the await inside signIn
SignInStart(email, password) ==
  /\ authMounted
  /\ view = "SignInPage"
  /\ Cardinality(pending) < MaxPending
  /\ loading' = TRUE
  /\ pending' = pending \cup {[kind |-> "signIn", email |-> email, password |-> password]}
  /\ UNCHANGED <<user, token, localStorage, authMounted, location, reloads, session, now>>
  /\ Render
  /\ UNCHANGED <<dashVars, chatVars>>

\* The body of signIn's try block after the await, and the navigate('/dashboard')
\* with which handleSignIn goes on
EstablishSession(email) ==
  LET mockToken == MockToken(now)
      mockUser == MockUser(email, now)
  IN  /\ localStorage' = [floatchat_token |-> mockToken,
                          floatchat_user |-> JSONStringify(mockUser)]
      /\ token' = mockToken
      /\ user' = mockUser
      /\ session' = [s |-> "in", user |-> mockUser, token |-> mockToken,
                     epoch |-> reloads]
      /\ location' = "/dashboard"

\* Faulty variant: a signIn that rejects every password but one
SignInResolve_ChecksPassword(op) ==
  /\ op \in pending
  /\ op.kind = "signIn"
  /\ pending' = pending \ {op}
  /\ IF op.password = "pw1"
     THEN EstablishSession(op.email)
     ELSE UNCHANGED <<localStorage, token, user, session, location>>
  /\ loading' = FALSE
  /\ UNCHANGED <<authMounted, reloads, now>>
  /\ view' = RouteElement(location', user', loading')
  /\ UNCHANGED <<dashVars, chatVars>>

\* signIn after its timeout, then navigate('/dashboard') of handleSignIn
SignInResolve(op) ==
  /\ op \in pending
  /\ op.kind = "signIn"
  /\ pending' = pending \ {op}
  /\ EstablishSession(op.email)
  /\ loading' = FALSE
  /\ UNCHANGED <<authMounted, reloads, now>>
  /\ Render
  /\ UNCHANGED <<dashVars, chatVars>>

\* signUp up to its await (the arguments are only logged)
SignUpStart(email, password) ==
  /\ authMounted
  /\ view = "SignUpPage"
  /\ Cardinality(pending) < MaxPending
  /\ loading' = TRUE
  /\ pending' = pending \cup {[kind |-> "signUp"]}
  /\ UNCHANGED <<user, token, localStorage, authMounted, location, reloads, session, now>>
  /\ Render
  /\ UNCHANGED <<dashVars, chatVars>>

\* signUp after its timeout
SignUpResolve(op) ==
  /\ op \in pending
  /\ op.kind = "signUp"
  /\ pending' = pending \ {op}
  /\ loading' = FALSE
  /\ UNCHANGED <<user, token, localStorage, authMounted, location, reloads, session, now>>
  /\ Render
  /\ UNCHANGED <<dashVars, chatVars>>

\* Faulty variant: a signOut that leaves the floatchat_user key behind
SignOut_KeepsUserKey ==
  /\ authMounted
  /\ Truthy(user)
  /\ localStorage' = [localStorage EXCEPT !.floatchat_token = Null]
  /\ token' = Null
  /\ user' = Null
  /\ session' = [s |-> "out", epoch |-> reloads]
  /\ UNCHANGED <<loading, pending, authMounted, location, reloads, now>>
  /\ view' = RouteElement(location', user', loading')
  /\ UNCHANGED <<dashVars, chatVars>>

\* signOut, reached from the Sign Out button Navigation shows when user is set
SignOut ==
  /\ authMounted
  /\ Truthy(user)
  /\ localStorage' = [floatchat_token |-> Null, floatchat_user |-> Null]
  /\ token' = Null
  /\ user' = Null
  /\ session' = [s |-> "out", epoch |-> reloads]
  /\ UNCHANGED <<loading, pending, authMounted, location, reloads, now>>
  /\ Render
  /\ UNCHANGED <<dashVars, chatVars>>

\* A link of the application is followed
Goto(path) ==
  /\ authMounted
  /\ path # location
  /\ location' = path
  /\ UNCHANGED <<user, token, loading, localStorage, pending, authMounted, reloads, session, now>>
  /\ Render
  /\ UNCHANGED <<dashVars, chatVars>>

\* <Navigate to="/signin" replace /> takes effect
NavigateEffect ==
  /\ view = "Navigate"
  /\ location' = "/signin"
  /\ UNCHANGED <<user, token, loading, localStorage, pending, authMounted, reloads, session, now>>
  /\ Render
  /\ UNCHANGED <<dashVars, chatVars>>

\* Faulty variant: a provider constructed with loading = false
Reload_NotLoading ==
  /\ reloads < MaxReloads
  /\ reloads' = reloads + 1
  /\ user' = Null
  /\ token' = Null
  /\ loading' = FALSE
  /\ pending' = {}
  /\ authMounted' = FALSE
  /\ UNCHANGED <<localStorage, location, session, now>>
  /\ view' = RouteElement(location', user', loading')
  /\ UNCHANGED <<dashVars, chatVars>>

\* The page is reloaded: the provider is constructed again, local storage stays
Reload ==
  /\ reloads < MaxReloads
  /\ reloads' = reloads + 1
  /\ user' = Null
  /\ token' = Null
  /\ loading' = TRUE
  /\ pending' = {}
  /\ authMounted' = FALSE
  /\ UNCHANGED <<localStorage, location, session, now>>
  /\ Render
  /\ UNCHANGED <<dashVars, chatVars>>

-----------------------------------------------------------------------------
\* DashboardPage

\* the filter values tried, among those the page offers
Parameters == {"temperature", "salinity"}
DateRanges == {"6months", "1year"}
Regions == {"global", "indian"}

\* message of the TypeError a rejected fetch carries
FetchFailedMessage == Str(<<"Failed to fetch">>)

\* message of the SyntaxError JSON.parse / response.json() throws on a text
SyntaxErrorMessage(text) == Str(<<"SyntaxError: not valid JSON", text>>)

\* message of the TypeError a property read on null throws
NullReadMessage == Str(<<"TypeError: cannot read properties of null">>)

\* a || b on strings and null
OrElse(a, b) == IF Truthy(a) THEN a ELSE b

\* Faulty variant: the body of the page's earlier revision, without mode
VisualizeBody_NoMode(parameter, date_range, region) ==
  [parameter |-> parameter, date_range |-> date_range, region |-> region]

\* The body JSON.stringify builds for a request
VisualizeBody(parameter, date_range, region) ==
  [parameter |-> parameter, date_range |-> date_range, region |-> region,
   mode |-> "dashboard"]

\* The serialized figure the service produces for a request
FigureText(r, which) ==
  [json |-> "object",
   members |-> << <<"data", <<which, r.body.parameter, r.body.date_range, r.body.region>> >>,
                  <<"layout", which>> >>]

\* What a figure field of the response body can hold for request r: absent,
\* a string that is not JSON, the JSON text `null`, a serialized figure
FigureFields(r, which) ==
  { Null, [json |-> "invalid"], [json |-> "null"], FigureText(r, which) }

\* The responses request r can get: the fetch rejects; or it resolves with a
\* status and a body that is not JSON, is the JSON value null, or is an object
Responses(r) ==
  { [net |-> "fail"] }
  \cup { [net |-> "ok", ok |-> ok, body |-> b] :
           ok \in BOOLEAN, b \in {[json |-> "invalid"], [json |-> "null"]} }
  \cup { [net |-> "ok", ok |-> FALSE,
          body |-> [json |-> "object", map_figure |-> Null, chart_figure |-> Null,
                    message |-> m, error_details |-> d]] :
           m \in {Null, Str(<<"msg">>)}, d \in {Null, Str(<<"details">>)} }
  \cup { [net |-> "ok", ok |-> TRUE,
          body |-> [json |-> "object", map_figure |-> mf, chart_figure |-> cf,
                    message |-> m, error_details |-> Null]] :
           mf \in FigureFields(r, "map"), cf \in FigureFields(r, "chart"),
           m \in {Null, Str(<<"msg">>)} }

DashInit ==
  /\ selectedParameter = "temperature"
  /\ dateRange = "6months"
  /\ selectedRegion = "global"
  /\ mapFigure = Null
  /\ chartFigure = Null
  /\ isLoading = TRUE
  /\ error = Null
  /\ dashMounted = FALSE
  /\ vizInFlight = {}
  /\ vizIssued = 0
  /\ filterChanges = 0
  /\ vizOverlap = FALSE
  /\ lastViz = Null

\* fetchVisualizationData up to its await of fetch: the state is cleared and
\* one POST /visualize carrying the given filter values is issued
FetchVisualizationData(parameter, date_range, region) ==
  /\ isLoading' = TRUE
  /\ error' = Null
  /\ mapFigure' = Null
  /\ chartFigure' = Null
  /\ vizInFlight' = vizInFlight \cup
       {[id |-> vizIssued + 1, body |-> VisualizeBody(parameter, date_range, region)]}
  /\ vizIssued' = vizIssued + 1
  /\ vizOverlap' = (vizInFlight # {})

\* The effect at mount
DashMount ==
  /\ view = "DashboardPage"
  /\ ~dashMounted
  /\ dashMounted' = TRUE
  /\ FetchVisualizationData(selectedParameter, dateRange, selectedRegion)
  /\ UNCHANGED <<selectedParameter, dateRange, selectedRegion, filterChanges, lastViz>>
  /\ UNCHANGED <<now, authVars, chatVars>>

\* A parameter button is clicked; the effect runs again for the new value
SetSelectedParameter(p) ==
  /\ view = "DashboardPage"
  /\ dashMounted
  /\ vizIssued < MaxViz
  /\ p # selectedParameter
  /\ selectedParameter' = p
  /\ filterChanges' = filterChanges + 1
  /\ FetchVisualizationData(p, dateRange, selectedRegion)
  /\ UNCHANGED <<dateRange, selectedRegion, dashMounted, lastViz>>
  /\ UNCHANGED <<now, authVars, chatVars>>

\* The date range select changes
SetDateRange(d) ==
  /\ view = "DashboardPage"
  /\ dashMounted
  /\ vizIssued < MaxViz
  /\ d # dateRange
  /\ dateRange' = d
  /\ filterChanges' = filterChanges + 1
  /\ FetchVisualizationData(selectedParameter, d, selectedRegion)
  /\ UNCHANGED <<selectedParameter, selectedRegion, dashMounted, lastViz>>
  /\ UNCHANGED <<now, authVars, chatVars>>

\* The region select changes
SetSelectedRegion(g) ==
  /\ view = "DashboardPage"
  /\ dashMounted
  /\ vizIssued < MaxViz
  /\ g # selectedRegion
  /\ selectedRegion' = g
  /\ filterChanges' = filterChanges + 1
  /\ FetchVisualizationData(selectedParameter, dateRange, g)
  /\ UNCHANGED <<selectedParameter, dateRange, dashMounted, lastViz>>
  /\ UNCHANGED <<now, authVars, chatVars>>

\* `field ? JSON.parse(field) : null` for a field that parses
ParsedFigure(field) == IF Truthy(field) THEN JSONParse(field) ELSE Null

\* whether JSON.parse(field) is reached and throws
ParseThrows(field) == Truthy(field) /\ ~JSONValid(field)

\* The try / catch of fetchVisualizationData from the await of fetch on, for
\* a response resp
ApplyVisualizeResponse(resp) ==
  /\ IF resp.net = "fail"
     THEN \* fetch rejected
          /\ error' = FetchFailedMessage
          /\ UNCHANGED <<mapFigure, chartFigure>>
     ELSE IF resp.body.json = "invalid"
     THEN \* response.json() rejected
          /\ error' = SyntaxErrorMessage("body")
          /\ UNCHANGED <<mapFigure, chartFigure>>
     ELSE IF resp.body.json = "null"
     THEN \* figureJson is null: reading a property of it throws
          /\ error' = NullReadMessage
          /\ UNCHANGED <<mapFigure, chartFigure>>
     ELSE IF ~resp.ok
     THEN /\ error' = OrElse(resp.body.error_details,
                             OrElse(resp.body.message, Str(<<"Failed to fetch plot data.">>)))
          /\ UNCHANGED <<mapFigure, chartFigure>>
     ELSE IF ParseThrows(resp.body.map_figure)
     THEN /\ error' = SyntaxErrorMessage("map_figure")
          /\ UNCHANGED <<mapFigure, chartFigure>>
     ELSE IF ParseThrows(resp.body.chart_figure)
     THEN \* setMapFigure ran before the second JSON.parse threw
          /\ mapFigure' = ParsedFigure(resp.body.map_figure)
          /\ error' = SyntaxErrorMessage("chart_figure")
          /\ UNCHANGED chartFigure
     ELSE /\ mapFigure' = ParsedFigure(resp.body.map_figure)
          /\ chartFigure' = ParsedFigure(resp.body.chart_figure)
          /\ IF ~Truthy(resp.body.map_figure) /\ ~Truthy(resp.body.chart_figure)
             THEN error' = OrElse(resp.body.message, Str(<<"No visualization returned.">>))
             ELSE UNCHANGED error

\* Faulty variant: a page that drops the response of any request but the latest
VisualizeSettle_LatestOnly(r, resp) ==
  /\ view = "DashboardPage"
  /\ r \in vizInFlight
  /\ vizInFlight' = vizInFlight \ {r}
  /\ lastViz' = [req |-> r, resp |-> resp]
  /\ IF r.id = vizIssued
     THEN ApplyVisualizeResponse(resp) /\ isLoading' = FALSE
     ELSE UNCHANGED <<mapFigure, chartFigure, error, isLoading>>
  /\ UNCHANGED <<selectedParameter, dateRange, selectedRegion, dashMounted, vizIssued,
                 filterChanges, vizOverlap>>
  /\ UNCHANGED <<now, authVars, chatVars>>

\* fetchVisualizationData from the await of fetch to its end, for request r
\* settled with response resp
VisualizeSettle(r, resp) ==
  /\ view = "DashboardPage"
  /\ r \in vizInFlight
  /\ vizInFlight' = vizInFlight \ {r}
  /\ lastViz' = [req |-> r, resp |-> resp]
  /\ ApplyVisualizeResponse(resp)
  /\ isLoading' = FALSE
  /\ UNCHANGED <<selectedParameter, dateRange, selectedRegion, dashMounted, vizIssued,
                 filterChanges, vizOverlap>>
  /\ UNCHANGED <<now, authVars, chatVars>>

DashNext ==
  \/ DashMount
  \/ \E p \in Parameters : SetSelectedParameter(p)
  \/ \E d \in DateRanges : SetDateRange(d)
  \/ \E g \in Regions : SetSelectedRegion(g)
  \/ \E r \in vizInFlight : \E resp \in Responses(r) : VisualizeSettle(r, resp)

-----------------------------------------------------------------------------
\* Date.now() advances
Tick ==
  /\ now < MaxClock
  /\ now' = now + 1

-----------------------------------------------------------------------------
\* ChatbotPage

\* Number of entries of welcomeMessages
WelcomeCount == 3

\* welcomeMessages[i]
WelcomeMessage(i) == Str(<<"welcome", i>>)

\* The texts typed into the input: empty, blank, a query
Inputs == { Str(<<>>), Str(<<" ">>), Str(<<"q">>) }

\* s.trim() is the empty string
IsBlank(s) == \A i \in 1..Len(s.str) : s.str[i] = " "

\* Date.now().toString()
NowString(t) == Str(<<t>>)

\* Date.now().toString() + '-bot'
NowBotString(t) == Str(<<t, "-bot">>)

\* What GET /health can give the page: the fetch rejects, the body is not
\* JSON, it is the JSON value null (reading data.status throws), or it is an
\* object with a status
HealthResponses ==
  { [net |-> "fail"],
    [net |-> "ok", body |-> [json |-> "invalid"]],
    [net |-> "ok", body |-> [json |-> "null"]],
    [net |-> "ok", body |-> [json |-> "object", status |-> "healthy"]],
    [net |-> "ok", body |-> [json |-> "object", status |-> "degraded"]] }

\* What POST /chat can give sendChat: the fetch rejects, a non-2xx status with
\* a body text, a 2xx status with a body that is not JSON, a 2xx status with
\* the JSON of a reply
ChatResponses ==
  { [net |-> "fail"],
    [net |-> "ok", ok |-> FALSE, status |-> 500, text |-> "boom"],
    [net |-> "ok", ok |-> TRUE, body |-> [json |-> "invalid"]],
    [net |-> "ok", ok |-> TRUE,
     body |-> [json |-> "object", success |-> TRUE, response |-> Str(<<"answer">>),
               source_agent |-> Str(<<"agent">>), processing_time |-> Null,
               debug_info |-> Null]] }

\* sendChat: whether the promise it returns rejects
SendChatRejects(resp) ==
  resp.net = "fail" \/ ~resp.ok \/ resp.body.json = "invalid"

\* sendChat: the message of the error it rejects with
SendChatError(resp) ==
  IF resp.net = "fail" THEN FetchFailedMessage
  ELSE IF ~resp.ok THEN Str(<<"HTTP error! status: ", resp.status, " - ", resp.text>>)
  ELSE SyntaxErrorMessage("body")

\* Faulty variant: the body also carries include_debug
ChatBody_WithDebug(query, sessionId) ==
  [query |-> query, session_id |-> sessionId, include_debug |-> FALSE]

\* sendChat: the body JSON.stringify builds, { query, session_id: sessionId }
ChatBody(query, sessionId) ==
  [query |-> query, session_id |-> sessionId]

ChatInit ==
  /\ messages = <<>>
  /\ inputValue = Str(<<>>)
  /\ isTyping = FALSE
  /\ conversations = <<>>
  /\ activeChatId = Null
  /\ connectionStatus = "checking"
  /\ chatMounted = FALSE
  /\ healthInFlight = FALSE
  /\ chatInFlight = {}
  /\ chatIssued = 0
  /\ sendsAccepted = 0
  /\ deletedChatId = Null

\* The effect that creates a chat waits to run: `user && !activeChatId`
NewChatEffectDue == chatMounted /\ Truthy(user) /\ ~Truthy(activeChatId)

\* The first effect at mount: checkConnection up to its await of fetch
ChatMount ==
  /\ view = "ChatbotPage"
  /\ ~chatMounted
  /\ chatMounted' = TRUE
  /\ healthInFlight' = TRUE
  /\ UNCHANGED <<messages, inputValue, isTyping, conversations, activeChatId,
                 connectionStatus, chatInFlight, chatIssued, sendsAccepted>>
  /\ UNCHANGED <<now, authVars, dashVars, deletedChatId>>

\* Faulty variant: any response that arrives counts as a healthy backend
HealthSettle_AnyResponse(resp) ==
  /\ view = "ChatbotPage"
  /\ healthInFlight
  /\ healthInFlight' = FALSE
  /\ connectionStatus' = IF resp.net = "ok" THEN "connected" ELSE "disconnected"
  /\ UNCHANGED <<messages, inputValue, isTyping, conversations, activeChatId,
                 chatMounted, chatInFlight, chatIssued, sendsAccepted>>
  /\ UNCHANGED <<now, authVars, dashVars, deletedChatId>>

\* Faulty variant: the health check is polled, a new GET /health being issued
\* each time one settles
HealthSettle_Polls(resp) ==
  /\ view = "ChatbotPage"
  /\ healthInFlight
  /\ healthInFlight' = TRUE
  /\ connectionStatus' =
       IF resp.net = "ok" /\ resp.body.json = "object" /\ resp.body.status = "healthy"
       THEN "connected" ELSE "disconnected"
  /\ UNCHANGED <<messages, inputValue, isTyping, conversations, activeChatId,
                 chatMounted, chatInFlight, chatIssued, sendsAccepted>>
  /\ UNCHANGED <<now, authVars, dashVars, deletedChatId>>

\* checkConnection from its await of fetch on
HealthSettle(resp) ==
  /\ view = "ChatbotPage"
  /\ healthInFlight
  /\ healthInFlight' = FALSE
  /\ connectionStatus' =
       IF resp.net = "ok" /\ resp.body.json = "object" /\ resp.body.status = "healthy"
       THEN "connected" ELSE "disconnected"
  /\ UNCHANGED <<messages, inputValue, isTyping, conversations, activeChatId,
                 chatMounted, chatInFlight, chatIssued, sendsAccepted>>
  /\ UNCHANGED <<now, authVars, dashVars, deletedChatId>>

\* Faulty variant: a New Chat that puts its welcome message below the messages
\* already shown
HandleNewChat_KeepsMessages(w) ==
  LET newChatId == NowString(now)
      welcomeMessage == [id |-> NowBotString(now), type |-> "bot",
                         content |-> WelcomeMessage(w), timestamp |-> now,
                         chat_id |-> newChatId]
  IN  /\ conversations' = Append(conversations, [id |-> newChatId, title |-> "New Chat"])
      /\ activeChatId' = newChatId
      /\ messages' = Append(messages, welcomeMessage)

\* handleNewChat, with welcomeMessages[w] drawn
HandleNewChat(w) ==
  LET newChatId == NowString(now)
      welcomeMessage == [id |-> NowBotString(now), type |-> "bot",
                         content |-> WelcomeMessage(w), timestamp |-> now,
                         chat_id |-> newChatId]
  IN  /\ conversations' = Append(conversations, [id |-> newChatId, title |-> "New Chat"])
      /\ activeChatId' = newChatId
      /\ messages' = <<welcomeMessage>>

\* The New Chat button is clicked
NewChatClicked(w) ==
  /\ view = "ChatbotPage"
  /\ chatMounted
  /\ ~NewChatEffectDue
  /\ Len(conversations) < MaxChats
  /\ HandleNewChat(w)
  /\ UNCHANGED <<inputValue, isTyping, connectionStatus, chatMounted, healthInFlight,
                 chatInFlight, chatIssued, sendsAccepted>>
  /\ UNCHANGED <<now, authVars, dashVars, deletedChatId>>

\* The effect `if (user && !activeChatId) handleNewChat()`, at mount and
\* after a delete
NewChatEffect(w) ==
  /\ view = "ChatbotPage"
  /\ NewChatEffectDue
  /\ HandleNewChat(w)
  /\ UNCHANGED <<inputValue, isTyping, connectionStatus, chatMounted, healthInFlight,
                 chatInFlight, chatIssued, sendsAccepted>>
  /\ UNCHANGED <<now, authVars, dashVars, deletedChatId>>

\* A conversation of the sidebar is clicked
SetActiveChatId(i) ==
  /\ view = "ChatbotPage"
  /\ chatMounted
  /\ ~NewChatEffectDue
  /\ i \in 1..Len(conversations)
  /\ activeChatId' = conversations[i].id
  /\ UNCHANGED <<messages, inputValue, isTyping, conversations, connectionStatus,
                 chatMounted, healthInFlight, chatInFlight, chatIssued, sendsAccepted>>
  /\ UNCHANGED <<now, authVars, dashVars, deletedChatId>>

\* handleDeleteChat
HandleDeleteChat ==
  /\ view = "ChatbotPage"
  /\ chatMounted
  /\ ~NewChatEffectDue
  /\ IF ~Truthy(activeChatId)
     THEN UNCHANGED <<conversations, activeChatId, messages, deletedChatId>>
     ELSE /\ conversations' = SelectSeq(conversations, LAMBDA c : c.id # activeChatId)
          /\ activeChatId' = Null
          /\ messages' = <<>>
          /\ deletedChatId' = activeChatId
  /\ UNCHANGED <<inputValue, isTyping, connectionStatus, chatMounted, healthInFlight,
                 chatInFlight, chatIssued, sendsAccepted>>
  /\ UNCHANGED <<now, authVars, dashVars>>

\* Typing into the input, which is disabled while isTyping
SetInputValue(v) ==
  /\ view = "ChatbotPage"
  /\ chatMounted
  /\ ~NewChatEffectDue
  /\ ~isTyping
  /\ v # inputValue
  /\ inputValue' = v
  /\ UNCHANGED <<messages, isTyping, conversations, activeChatId, connectionStatus,
                 chatMounted, healthInFlight, chatInFlight, chatIssued, sendsAccepted>>
  /\ UNCHANGED <<now, authVars, dashVars, deletedChatId>>

\* Faulty variant: an offline Send that also shows the user's text and clears
\* the input
HandleSendMessage_OfflineEcho ==
  /\ view = "ChatbotPage"
  /\ chatMounted
  /\ ~NewChatEffectDue
  /\ ~isTyping
  /\ IF IsBlank(inputValue) \/ ~Truthy(user) \/ ~Truthy(activeChatId)
     THEN UNCHANGED <<messages, inputValue, isTyping, chatInFlight, chatIssued,
                      sendsAccepted>>
     ELSE IF connectionStatus # "connected"
     THEN /\ Len(messages) + 1 < MaxMessages
          /\ messages' = messages \o
               << [id |-> NowString(now), type |-> "user", content |-> inputValue,
                   timestamp |-> now, chat_id |-> activeChatId],
                  [id |-> NowString(now), type |-> "bot",
                   content |-> Str(<<"Unable to connect to backend.">>),
                   timestamp |-> now, chat_id |-> activeChatId] >>
          /\ inputValue' = Str(<<>>)
          /\ UNCHANGED <<isTyping, chatInFlight, chatIssued, sendsAccepted>>
     ELSE /\ Len(messages) + 1 < MaxMessages
          /\ chatIssued < MaxSends
          /\ messages' = Append(messages,
               [id |-> NowString(now), type |-> "user", content |-> inputValue,
                timestamp |-> now, chat_id |-> activeChatId])
          /\ inputValue' = Str(<<>>)
          /\ isTyping' = TRUE
          /\ chatInFlight' = chatInFlight \cup {ChatBody(inputValue, activeChatId)}
          /\ chatIssued' = chatIssued + 1
          /\ sendsAccepted' = sendsAccepted + 1
  /\ UNCHANGED <<conversations, activeChatId, connectionStatus, chatMounted,
                 healthInFlight>>
  /\ UNCHANGED <<now, authVars, dashVars, deletedChatId>>

\* Faulty variant: a Send that stays possible while a request is in flight, the
\* button not being disabled and the input keeping its text
HandleSendMessage_WhileTyping ==
  /\ view = "ChatbotPage"
  /\ chatMounted
  /\ ~NewChatEffectDue
  /\ IF IsBlank(inputValue) \/ ~Truthy(user) \/ ~Truthy(activeChatId)
     THEN UNCHANGED <<messages, inputValue, isTyping, chatInFlight, chatIssued,
                      sendsAccepted>>
     ELSE IF connectionStatus # "connected"
     THEN /\ Len(messages) < MaxMessages
          /\ messages' = Append(messages,
               [id |-> NowString(now), type |-> "bot",
                content |-> Str(<<"Unable to connect to backend.">>),
                timestamp |-> now, chat_id |-> activeChatId])
          /\ UNCHANGED <<inputValue, isTyping, chatInFlight, chatIssued, sendsAccepted>>
     ELSE /\ Len(messages) + 1 < MaxMessages
          /\ chatIssued < MaxSends
          /\ messages' = Append(messages,
               [id |-> NowString(now), type |-> "user", content |-> inputValue,
                timestamp |-> now, chat_id |-> activeChatId])
          /\ UNCHANGED inputValue
          /\ isTyping' = TRUE
          /\ chatInFlight' = chatInFlight \cup {ChatBody(inputValue, activeChatId)}
          /\ chatIssued' = chatIssued + 1
          /\ sendsAccepted' = sendsAccepted + 1
  /\ UNCHANGED <<conversations, activeChatId, connectionStatus, chatMounted,
                 healthInFlight>>
  /\ UNCHANGED <<now, authVars, dashVars, deletedChatId>>

\* Faulty variant: a Send that does not look at connectionStatus
HandleSendMessage_NoStatusCheck ==
  /\ view = "ChatbotPage"
  /\ chatMounted
  /\ ~NewChatEffectDue
  /\ ~isTyping
  /\ IF IsBlank(inputValue) \/ ~Truthy(user) \/ ~Truthy(activeChatId)
     THEN UNCHANGED <<messages, inputValue, isTyping, chatInFlight, chatIssued,
                      sendsAccepted>>
     ELSE /\ Len(messages) + 1 < MaxMessages
          /\ chatIssued < MaxSends
          /\ messages' = Append(messages,
               [id |-> NowString(now), type |-> "user", content |-> inputValue,
                timestamp |-> now, chat_id |-> activeChatId])
          /\ inputValue' = Str(<<>>)
          /\ isTyping' = TRUE
          /\ chatInFlight' = chatInFlight \cup {ChatBody(inputValue, activeChatId)}
          /\ chatIssued' = chatIssued + 1
          /\ sendsAccepted' = sendsAccepted + 1
  /\ UNCHANGED <<conversations, activeChatId, connectionStatus, chatMounted,
                 healthInFlight>>
  /\ UNCHANGED <<now, authVars, dashVars, deletedChatId>>

\* handleSendMessage up to its await of sendChat, called by Enter in the
\* input or by the Send button, both disabled while isTyping
HandleSendMessage ==
  /\ view = "ChatbotPage"
  /\ chatMounted
  /\ ~NewChatEffectDue
  /\ ~isTyping
  /\ IF IsBlank(inputValue) \/ ~Truthy(user) \/ ~Truthy(activeChatId)
     THEN UNCHANGED <<messages, inputValue, isTyping, chatInFlight, chatIssued,
                      sendsAccepted>>
     ELSE IF connectionStatus # "connected"
     THEN /\ Len(messages) < MaxMessages
          /\ messages' = Append(messages,
               [id |-> NowString(now), type |-> "bot",
                content |-> Str(<<"Unable to connect to backend.">>),
                timestamp |-> now, chat_id |-> activeChatId])
          /\ UNCHANGED <<inputValue, isTyping, chatInFlight, chatIssued, sendsAccepted>>
     ELSE /\ Len(messages) + 1 < MaxMessages
          /\ chatIssued < MaxSends
          /\ messages' = Append(messages,
               [id |-> NowString(now), type |-> "user", content |-> inputValue,
                timestamp |-> now, chat_id |-> activeChatId])
          /\ inputValue' = Str(<<>>)
          /\ isTyping' = TRUE
          /\ chatInFlight' = chatInFlight \cup {ChatBody(inputValue, activeChatId)}
          /\ chatIssued' = chatIssued + 1
          /\ sendsAccepted' = sendsAccepted + 1
  /\ UNCHANGED <<conversations, activeChatId, connectionStatus, chatMounted,
                 healthInFlight>>
  /\ UNCHANGED <<now, authVars, dashVars, deletedChatId>>

\* Faulty variant: a catch that shows the error but leaves connectionStatus
ApplyChatResponse_KeepsStatus(req, resp) ==
  /\ IF SendChatRejects(resp)
     THEN messages' = Append(messages,
               [id |-> NowString(now), type |-> "bot",
                content |-> SendChatError(resp), timestamp |-> now,
                chat_id |-> req.session_id])
     ELSE messages' = Append(messages,
               [id |-> NowString(now), type |-> "bot",
                content |-> resp.body.response, timestamp |-> now,
                chat_id |-> req.session_id,
                processing_time |-> resp.body.processing_time,
                source_agent |-> resp.body.source_agent,
                debug_info |-> resp.body.debug_info])
  /\ UNCHANGED connectionStatus

\* The try / catch of handleSendMessage from the await of sendChat on
ApplyChatResponse(req, resp) ==
  /\ IF SendChatRejects(resp)
     THEN /\ messages' = Append(messages,
               [id |-> NowString(now), type |-> "bot",
                content |-> SendChatError(resp), timestamp |-> now,
                chat_id |-> req.session_id])
          /\ connectionStatus' = "disconnected"
     ELSE /\ messages' = Append(messages,
               [id |-> NowString(now), type |-> "bot",
                content |-> resp.body.response, timestamp |-> now,
                chat_id |-> req.session_id,
                processing_time |-> resp.body.processing_time,
                source_agent |-> resp.body.source_agent,
                debug_info |-> resp.body.debug_info])
          /\ UNCHANGED connectionStatus

\* Faulty variant: a failed request is sent once more before the error is shown
ChatSettle_Retry(req, resp) ==
  /\ view = "ChatbotPage"
  /\ req \in chatInFlight
  /\ IF SendChatRejects(resp) /\ chatIssued = sendsAccepted
     THEN /\ chatIssued' = chatIssued + 1
          /\ UNCHANGED <<chatInFlight, messages, connectionStatus, isTyping>>
     ELSE /\ chatInFlight' = chatInFlight \ {req}
          /\ ApplyChatResponse(req, resp)
          /\ isTyping' = FALSE
          /\ UNCHANGED chatIssued
  /\ UNCHANGED <<inputValue, conversations, activeChatId, chatMounted, healthInFlight,
                 sendsAccepted>>
  /\ UNCHANGED <<now, authVars, dashVars, deletedChatId>>

\* Faulty variant: isTyping is reset after a reply only, not after a failure
ChatSettle_NoFinally(req, resp) ==
  /\ view = "ChatbotPage"
  /\ req \in chatInFlight
  /\ chatInFlight' = chatInFlight \ {req}
  /\ ApplyChatResponse(req, resp)
  /\ isTyping' = SendChatRejects(resp)
  /\ UNCHANGED <<inputValue, conversations, activeChatId, chatMounted, healthInFlight,
                 chatIssued, sendsAccepted>>
  /\ UNCHANGED <<now, authVars, dashVars, deletedChatId>>

\* handleSendMessage from its await of sendChat on, for the request req
\* settled with resp
ChatSettle(req, resp) ==
  /\ view = "ChatbotPage"
  /\ req \in chatInFlight
  /\ chatInFlight' = chatInFlight \ {req}
  /\ ApplyChatResponse(req, resp)
  /\ isTyping' = FALSE
  /\ UNCHANGED <<inputValue, conversations, activeChatId, chatMounted, healthInFlight,
                 chatIssued, sendsAccepted>>
  /\ UNCHANGED <<now, authVars, dashVars, deletedChatId>>

ChatTick == Tick /\ UNCHANGED <<authVars, dashVars, chatVars>>

ChatNext ==
  \/ ChatMount
  \/ \E resp \in HealthResponses : HealthSettle(resp)
  \/ \E w \in 1..WelcomeCount : NewChatClicked(w)
  \/ \E w \in 1..WelcomeCount : NewChatEffect(w)
  \/ \E i \in 1..MaxChats : SetActiveChatId(i)
  \/ HandleDeleteChat
  \/ \E v \in Inputs : SetInputValue(v)
  \/ HandleSendMessage
  \/ \E req \in chatInFlight : \E resp \in ChatResponses : ChatSettle(req, resp)
  \/ ChatTick

AuthTick == Tick /\ UNCHANGED <<authVars, dashVars, chatVars>>

AuthNext ==
  \/ AuthMountEffect
  \/ \E e \in Emails, p \in Passwords : SignInStart(e, p)
  \/ \E op \in pending : SignInResolve(op)
  \/ \E e \in Emails, p \in Passwords : SignUpStart(e, p)
  \/ \E op \in pending : SignUpResolve(op)
  \/ SignOut
  \/ \E path \in Paths : Goto(path)
  \/ NavigateEffect
  \/ Reload
  \/ AuthTick

SpecAuthInit == now = 0 /\ AuthInit /\ DashInit /\ ChatInit

SpecAuth == SpecAuthInit /\ [][AuthNext]_vars

\* The signed-in state the protected pages are mounted in
SignedIn ==
  /\ user = MockUser(Str(<<"a", At, "x">>), 0)
  /\ token = MockToken(0)
  /\ loading = FALSE
  /\ pending = {}
  /\ authMounted = TRUE
  /\ localStorage = [floatchat_token |-> token, floatchat_user |-> JSONStringify(user)]
  /\ reloads = 0
  /\ session = [s |-> "in", user |-> user, token |-> token, epoch |-> 0]

SpecDashInit ==
  /\ now = 0
  /\ SignedIn
  /\ location = "/dashboard"
  /\ view = RouteElement(location, user, loading)
  /\ DashInit
  /\ ChatInit

SpecDash == SpecDashInit /\ [][DashNext]_vars

SpecChatInit ==
  /\ now = 0
  /\ SignedIn
  /\ location = "/chat"
  /\ view = RouteElement(location, user, loading)
  /\ DashInit
  /\ ChatInit

SpecChat == SpecChatInit /\ [][ChatNext]_vars

\* The promise of a request in flight settles
ChatSettles == \E req \in chatInFlight : \E resp \in ChatResponses : ChatSettle(req, resp)

\* The effect that creates a chat runs once it is due
NewChatEffects == \E w \in 1..WelcomeCount : NewChatEffect(w)

\* The chat page with its scheduling: a fetch resolves or rejects in the end,
\* and React runs an effect after the render that made it due
SpecChatFair == SpecChat /\ WF_vars(ChatSettles) /\ WF_vars(NewChatEffects)

\* A link of Navigation leads from one of the two pages to the other: the page
\* left is unmounted (what its requests in flight resolve to is dropped) and
\* the page entered is constructed
SwitchPage(path) ==
  /\ view \in {"ChatbotPage", "DashboardPage"}
  /\ path \in {"/chat", "/dashboard"}
  /\ path # location
  /\ location' = path
  /\ view' = RouteElement(path, user, loading)
  /\ selectedParameter' = "temperature"
  /\ dateRange' = "6months"
  /\ selectedRegion' = "global"
  /\ mapFigure' = Null
  /\ chartFigure' = Null
  /\ isLoading' = TRUE
  /\ error' = Null
  /\ dashMounted' = FALSE
  /\ vizInFlight' = {}
  /\ vizIssued' = 0
  /\ filterChanges' = 0
  /\ vizOverlap' = FALSE
  /\ lastViz' = Null
  /\ messages' = <<>>
  /\ inputValue' = Str(<<>>)
  /\ isTyping' = FALSE
  /\ conversations' = <<>>
  /\ activeChatId' = Null
  /\ connectionStatus' = "checking"
  /\ chatMounted' = FALSE
  /\ healthInFlight' = FALSE
  /\ chatInFlight' = {}
  /\ chatIssued' = 0
  /\ sendsAccepted' = 0
  /\ deletedChatId' = Null
  /\ UNCHANGED <<now, user, token, loading, localStorage, pending, authMounted,
                 reloads, session>>

SpecPagesInit ==
  /\ now = 0
  /\ SignedIn
  /\ location \in {"/chat", "/dashboard"}
  /\ view = RouteElement(location, user, loading)
  /\ DashInit
  /\ ChatInit

PagesNext ==
  \/ ChatNext
  \/ DashNext
  \/ \E path \in {"/chat", "/dashboard"} : SwitchPage(path)

SpecPages == SpecPagesInit /\ [][PagesNext]_vars

-----------------------------------------------------------------------------
\* What the dashboard shows (the conditional rendering of DashboardPage)

MainPanel ==
  IF isLoading THEN [el |-> "LoadingIndicator"]
  ELSE IF Truthy(error) THEN [el |-> "ErrorDisplay", message |-> error]
  ELSE IF Truthy(mapFigure) THEN [el |-> "Plot", figure |-> mapFigure]
  ELSE [el |-> "NoMapData"]

ChartPanel ==
  IF Truthy(chartFigure) THEN [el |-> "Plot", figure |-> chartFigure]
  ELSE [el |-> "None"]

-----------------------------------------------------------------------------
\* Properties of the dashboard

\* The filter values currently selected, as a figure's data records them
SelectedFilters(which) == <<which, selectedParameter, dateRange, selectedRegion>>

\* A response that is a success carrying a figure: status 2xx, an object body
\* whose figure fields are absent or parse, at least one of them to a figure
SuccessWithFigure(resp) ==
  /\ resp.net = "ok"
  /\ resp.ok
  /\ resp.body.json = "object"
  /\ \A f \in {resp.body.map_figure, resp.body.chart_figure} :
        f = Null \/ f.json \in {"object", "null"}
  /\ \E f \in {resp.body.map_figure, resp.body.chart_figure} :
        f # Null /\ f.json = "object"

\* C1: a change of a filter leaves the requests in flight where they are and
\* adds one, and the response of any request in flight, the latest or not, is
\* applied when it arrives: a successful one sets the figures it carries.
C1_StaleResponseApplied ==
  [][/\ (<<selectedParameter, dateRange, selectedRegion>>'
            # <<selectedParameter, dateRange, selectedRegion>>)
          => /\ vizInFlight \subseteq vizInFlight'
             /\ Cardinality(vizInFlight') = Cardinality(vizInFlight) + 1
     /\ \A r \in vizInFlight : \A resp \in Responses(r) :
          (VisualizeSettle(r, resp) /\ SuccessWithFigure(resp))
            => /\ mapFigure' = (IF resp.body.map_figure = Null THEN Null
                                ELSE JSONParse(resp.body.map_figure))
               /\ chartFigure' = (IF resp.body.chart_figure = Null THEN Null
                                  ELSE JSONParse(resp.body.chart_figure))
               /\ isLoading' = FALSE]_vars

\* C1 (witness): nothing is in flight and the map shown was produced for
\* filter values other than the selected ones
C1_StaleFigureShown ==
  /\ dashMounted
  /\ vizInFlight = {}
  /\ MainPanel.el = "Plot"
  /\ MainPanel.figure.data # SelectedFilters("map")

\* C2: with nothing in flight, if the response settled last was a success
\* carrying a figure, its figures are the ones shown and no error is shown.
C2_LastSuccessShown ==
  (dashMounted /\ vizInFlight = {} /\ lastViz # Null /\ SuccessWithFigure(lastViz.resp))
    => /\ ~Truthy(error)
       /\ MainPanel.el # "ErrorDisplay"
       /\ mapFigure = (IF lastViz.resp.body.map_figure = Null THEN Null
                       ELSE JSONParse(lastViz.resp.body.map_figure))
       /\ chartFigure = (IF lastViz.resp.body.chart_figure = Null THEN Null
                         ELSE JSONParse(lastViz.resp.body.chart_figure))

\* C10: when a request that had the network to itself has settled and an
\* error is recorded, neither figure is set.
C10_NoPartialFailure ==
  (dashMounted /\ vizInFlight = {} /\ ~vizOverlap /\ error # Null)
    => (mapFigure = Null /\ chartFigure = Null)

-----------------------------------------------------------------------------
\* Properties of the chat page

\* C4: no two messages of the message list have the same id.
C4_MessageIdsUnique ==
  \A i, j \in 1..Len(messages) : i # j => messages[i].id # messages[j].id

\* C5: no two entries of the conversations list have the same id.
C5_ConversationIdsUnique ==
  \A i, j \in 1..Len(conversations) : i # j => conversations[i].id # conversations[j].id

\* C9: as many POST /chat requests have been issued as Sends were accepted, and
\* once the dashboard is mounted as many POST /visualize requests as one plus
\* the filter changes; a request appears in flight only in the step of an
\* accepted Send, of the dashboard's mount or of a filter change.
C9_NoRetries ==
  /\ [](/\ chatIssued = sendsAccepted
        /\ dashMounted => vizIssued = 1 + filterChanges)
  /\ [][/\ ~(chatInFlight' \subseteq chatInFlight) => sendsAccepted' = sendsAccepted + 1
        /\ ~(vizInFlight' \subseteq vizInFlight)
             => \/ filterChanges' = filterChanges + 1
                \/ ~dashMounted /\ dashMounted']_vars

\* C9 (witness): the one POST /chat issued has failed and nothing is in flight
C9_FailedChatNotReissued ==
  /\ view = "ChatbotPage"
  /\ sendsAccepted = 1
  /\ chatIssued = 1
  /\ chatInFlight = {}
  /\ connectionStatus = "disconnected"
  /\ ~isTyping

-----------------------------------------------------------------------------
\* Properties of the auth context and the route gate

\* C3: a protected page is rendered only with loading = false and a user, and
\* at a protected path with loading = false and no user the redirect to
\* /signin is rendered instead.
C3_ProtectedPagesGated ==
  /\ view \in ProtectedPages => (~loading /\ user # Null)
  /\ (location \in ProtectedPaths /\ ~loading /\ user = Null) => view = "Navigate"

\* C3 (witness): after a sign-in and a sign-out at a protected path, the
\* redirect is what is rendered
C3_RedirectAfterSignOut ==
  /\ session.s = "out"
  /\ location \in ProtectedPaths
  /\ ~loading
  /\ view = "Navigate"

\* C6: every pending signIn, whatever its e-mail and password, can complete,
\* and when it does the user has the e-mail given, the token is set, and local
\* storage holds that token and the JSON of that user.
C6_SignInAcceptsAll ==
  /\ [](\A op \in pending : op.kind = "signIn" => ENABLED SignInResolve(op))
  /\ [][\A op \in pending :
          SignInResolve(op)
            => /\ user' # Null
               /\ user'.email = op.email
               /\ token' # Null
               /\ localStorage'.floatchat_token = token'
               /\ localStorage'.floatchat_user = JSONStringify(user')]_vars

\* C6 (witness): a sign-in with an address that has no '@' has completed
C6_SignedInOddEmail ==
  /\ session.s = "in"
  /\ user = session.user
  /\ user.email = Str(<<"b">>)
  /\ localStorage.floatchat_token = token
  /\ localStorage.floatchat_user = JSONStringify(user)

\* C7: when the provider mounts and the session in local storage is the one a
\* signIn wrote, the mount effect restores that signIn's user and token and
\* ends with loading = false.
C7_SignInRoundTrip ==
  [][(AuthMountEffect /\ session.s = "in")
       => (user' = session.user /\ token' = session.token /\ loading' = FALSE)]_vars

\* C7 (witness): a session written before the last reload has been restored
C7_RestoredAfterReload ==
  /\ authMounted
  /\ session.s = "in"
  /\ session.epoch < reloads
  /\ user = session.user
  /\ token = session.token
  /\ ~loading

\* C8: from a signOut until a signIn completes, reloads included, user and
\* token are null and neither key is in local storage.
C8_SignOutClears ==
  session.s = "out"
    => /\ user = Null
       /\ token = Null
       /\ localStorage.floatchat_token = Null
       /\ localStorage.floatchat_user = Null

\* C8 (witness): the provider has been mounted again after a signOut
C8_RemountedAfterSignOut ==
  /\ session.s = "out"
  /\ session.epoch < reloads
  /\ authMounted
  /\ user = Null

-----------------------------------------------------------------------------
\* What the chat page shows above the sidebar: the 'Backend disconnected' banner
Banner == connectionStatus # "connected"

-----------------------------------------------------------------------------
\* Properties of error handling

\* A response that arrived with a non-2xx status
NonOkStatus(resp) == resp.net = "ok" /\ ~resp.ok

\* The texts the body of a /visualize response carries
BodyTexts(resp) ==
  IF resp.body.json = "object"
  THEN {resp.body.message, resp.body.error_details} \ {Null}
  ELSE {}

\* C11: when /visualize or /chat answers with a non-2xx status, the error text
\* shown does not depend on the response body: the dashboard's error is none
\* of the texts the body carries, and the chat's bot message is the one that
\* would be shown for the same status with any other body text.
C11_StatusErrorGeneric ==
  [][/\ \A r \in vizInFlight : \A resp \in Responses(r) :
          (VisualizeSettle(r, resp) /\ NonOkStatus(resp))
            => error' \notin BodyTexts(resp)
     /\ \A req \in chatInFlight : \A resp \in ChatResponses :
          (ChatSettle(req, resp) /\ NonOkStatus(resp))
            => messages'[Len(messages')].content
                 = SendChatError([resp EXCEPT !.text = "other"])]_vars

\* A response whose handling meets a JSON parse failure: the body is not
\* JSON, or with a 2xx status a figure string in it is not JSON
ParseFails(resp) ==
  /\ resp.net = "ok"
  /\ \/ resp.body.json = "invalid"
     \/ /\ resp.ok
        /\ resp.body.json = "object"
        /\ (ParseThrows(resp.body.map_figure) \/ ParseThrows(resp.body.chart_figure))

\* The messages the JSON parser's errors carry
ParserMessages ==
  { SyntaxErrorMessage(t) : t \in {"body", "map_figure", "chart_figure"} }

\* C12: a JSON parse failure while a /visualize response is handled ends with
\* isLoading = false and an error shown that is not the parser's error text.
C12_ParseFailureGeneric ==
  [][\A r \in vizInFlight : \A resp \in Responses(r) :
       (VisualizeSettle(r, resp) /\ ParseFails(resp))
         => /\ isLoading' = FALSE
            /\ Truthy(error')
            /\ error' \notin ParserMessages]_vars

\* C13: when sendChat rejects for the request of an accepted Send, the message
\* list grows by exactly one bot message whose content is the error's text
\* (every message that was in the list, the user's own included, stays),
\* connectionStatus becomes 'disconnected' so that the banner is shown, and
\* isTyping becomes false.
C13_ChatFailureShown ==
  [][\A req \in chatInFlight : \A resp \in ChatResponses :
       (ChatSettle(req, resp) /\ SendChatRejects(resp))
         => /\ Len(messages') = Len(messages) + 1
            /\ SubSeq(messages', 1, Len(messages)) = messages
            /\ messages'[Len(messages')].type = "bot"
            /\ messages'[Len(messages')].content = SendChatError(resp)
            /\ connectionStatus' = "disconnected"
            /\ Banner'
            /\ isTyping' = FALSE]_vars

\* C13 (witness): the user's message is followed by the message of a rejected
\* fetch, under the banner
C13_FailureAfterUserMessage ==
  /\ Len(messages) >= 2
  /\ messages[Len(messages) - 1].type = "user"
  /\ messages[Len(messages)].type = "bot"
  /\ messages[Len(messages)].content = FetchFailedMessage
  /\ Banner
  /\ ~isTyping
  /\ chatInFlight = {}

-----------------------------------------------------------------------------
\* Properties of the requests

Healthy(resp) ==
  resp.net = "ok" /\ resp.body.json = "object" /\ resp.body.status = "healthy"

\* C16: connectionStatus is 'checking' until the GET /health of the mount
\* settles, and when it settles becomes 'connected' if the response JSON has
\* status = 'healthy' and 'disconnected' otherwise.
C16_HealthDecidesStatus ==
  /\ []((~chatMounted \/ healthInFlight) => connectionStatus = "checking")
  /\ [][\A resp \in HealthResponses :
          HealthSettle(resp)
            => connectionStatus' = (IF Healthy(resp) THEN "connected" ELSE "disconnected")]_vars

\* C16 (witness): the health check has settled healthy and nothing was sent
C16_ConnectedAfterHealth ==
  /\ chatMounted
  /\ ~healthInFlight
  /\ connectionStatus = "connected"
  /\ chatIssued = 0

-----------------------------------------------------------------------------
\* Properties of the conversations

\* C17: every message of the message list has the chat_id of the active chat.
C17_MessagesOfActiveChat ==
  \A i \in 1..Len(messages) : messages[i].chat_id = activeChatId

\* C18: when the request of a Send settles and the active chat is no longer
\* the chat it was sent from, the message list is left as it is.
C18_ReplyStaysInItsChat ==
  [][\A req \in chatInFlight : \A resp \in ChatResponses :
       (ChatSettle(req, resp) /\ activeChatId # req.session_id)
         => messages' = messages]_vars

\* The message a Send appends when the backend is not connected
OfflineMessage ==
  [id |-> NowString(now), type |-> "bot",
   content |-> Str(<<"Unable to connect to backend.">>),
   timestamp |-> now, chat_id |-> activeChatId]

\* C19: a POST /chat request is issued only from a state with a non-blank
\* input, a signed-in user, an active chat and connectionStatus 'connected';
\* while connectionStatus is 'checking' none has been issued.
C19_SendGuards ==
  /\ [](connectionStatus = "checking" => (chatIssued = 0 /\ chatInFlight = {}))
  /\ [][(chatIssued' # chatIssued \/ ~(chatInFlight' \subseteq chatInFlight))
          => /\ ~IsBlank(inputValue)
             /\ Truthy(user)
             /\ Truthy(activeChatId)
             /\ connectionStatus = "connected"]_vars

\* C19 (witness): Send was pressed with a query while the health check was
\* still in flight, and no request was issued
C19_SendWhileChecking ==
  /\ connectionStatus = "checking"
  /\ healthInFlight
  /\ ~IsBlank(inputValue)
  /\ Len(messages) >= 1
  /\ messages[Len(messages)].content = Str(<<"Unable to connect to backend.">>)
  /\ chatIssued = 0

\* C20: from a state with connectionStatus 'disconnected' every step leaves it
\* 'disconnected' and issues no POST /chat, and a Send changes nothing but the
\* message list, to which it appends the 'Unable to connect to backend'
\* message (or nothing, when the input is blank or there is no active chat).
C20_DisconnectedForGood ==
  [][connectionStatus = "disconnected"
       => /\ connectionStatus' = "disconnected"
          /\ chatIssued' = chatIssued
          /\ chatInFlight' = chatInFlight
          /\ HandleSendMessage
               => /\ messages' =
                       (IF IsBlank(inputValue) \/ ~Truthy(activeChatId)
                        THEN messages ELSE Append(messages, OfflineMessage))
                  /\ UNCHANGED <<inputValue, isTyping, conversations, activeChatId>>]_vars

\* C20 (witness): after a chat request failed, a Send in a new chat has only
\* appended the 'Unable to connect to backend' message
C20_OfflineAfterFailedChat ==
  /\ connectionStatus = "disconnected"
  /\ chatIssued = 1
  /\ chatInFlight = {}
  /\ Len(messages) >= 1
  /\ messages[Len(messages)].content = Str(<<"Unable to connect to backend.">>)

-----------------------------------------------------------------------------
\* Properties of Send

\* A Send that passes the first guard of handleSendMessage
SendAccepted == ~IsBlank(inputValue) /\ Truthy(user) /\ Truthy(activeChatId)

\* C21: a Send with a non-blank input, a signed-in user and an active chat
\* while connectionStatus is not 'connected' appends the one bot warning
\* message and changes nothing else: no user message, inputValue and isTyping
\* as before, nothing issued.
C21_OfflineSendFrame ==
  [][(HandleSendMessage /\ SendAccepted /\ connectionStatus # "connected")
       => /\ messages' = Append(messages, OfflineMessage)
          /\ messages'[Len(messages')].type = "bot"
          /\ UNCHANGED <<inputValue, isTyping, conversations, activeChatId,
                         connectionStatus, chatInFlight, chatIssued, sendsAccepted,
                         healthInFlight>>]_vars

\* C21 (witness): after a failed health check a Send of "q" has left the
\* warning below the welcome message, the input still holding "q"
C21_WarningOnly ==
  /\ connectionStatus = "disconnected"
  /\ chatIssued = 0
  /\ inputValue = Str(<<"q">>)
  /\ ~isTyping
  /\ Len(messages) = 2
  /\ messages[1].type = "bot"
  /\ messages[2].content = Str(<<"Unable to connect to backend.">>)

\* C22: isTyping is true exactly while a POST /chat request is in flight: an
\* accepted Send with the backend connected sets it, the settling of the
\* request, reply or failure, resets it and appends exactly one bot message,
\* and once true it is false again later.
C22_TypingTracksRequest ==
  /\ [](isTyping <=> chatInFlight # {})
  /\ [][(HandleSendMessage /\ SendAccepted /\ connectionStatus = "connected")
          => (isTyping' /\ chatInFlight' # {})]_vars
  /\ [][\A req \in chatInFlight : \A resp \in ChatResponses :
          ChatSettle(req, resp)
            => /\ ~isTyping'
               /\ Len(messages') = Len(messages) + 1
               /\ SubSeq(messages', 1, Len(messages)) = messages
               /\ messages'[Len(messages')].type = "bot"]_vars
  /\ (isTyping ~> ~isTyping)

\* C22 (witness): the reply to the one Send has arrived below the user's
\* message and the typing indicator is off
C22_ReplyArrived ==
  /\ ~isTyping
  /\ chatInFlight = {}
  /\ chatIssued = 1
  /\ connectionStatus = "connected"
  /\ Len(messages) = 3
  /\ messages[2].type = "user"
  /\ messages[3].content = Str(<<"answer">>)

\* C23: at most one POST /chat request is in flight, and a request is issued
\* only from a state with isTyping false and none in flight.
C23_OneRequestInFlight ==
  /\ [](Cardinality(chatInFlight) <= 1)
  /\ [][chatIssued' # chatIssued => (~isTyping /\ chatInFlight = {})]_vars

\* C23 (witness): a second request is in flight, the first having settled
C23_SecondRequestAlone ==
  /\ chatIssued = 2
  /\ isTyping
  /\ Cardinality(chatInFlight) = 1

-----------------------------------------------------------------------------
\* Properties of the conversations list

\* handleNewChat runs, from the button or from the effect
NewChatRuns == \E w \in 1..WelcomeCount : NewChatClicked(w) \/ NewChatEffect(w)

\* C24: a run of handleNewChat appends one conversation titled 'New Chat' to
\* the conversations list, the entries before it unchanged, makes its id the
\* active chat id, and makes the message list one bot message, a welcome
\* message, with that id as chat_id.
C24_NewChatEffects ==
  [][NewChatRuns
       => /\ Len(conversations') = Len(conversations) + 1
          /\ SubSeq(conversations', 1, Len(conversations)) = conversations
          /\ conversations'[Len(conversations')].title = "New Chat"
          /\ activeChatId' = conversations'[Len(conversations')].id
          /\ Len(messages') = 1
          /\ messages'[1].type = "bot"
          /\ messages'[1].content \in { WelcomeMessage(w) : w \in 1..WelcomeCount }
          /\ messages'[1].chat_id = activeChatId']_vars

\* C24 (witness): New Chat was clicked in a chat that had a reply: the second
\* conversation is active and its welcome message is all that is shown
C24_SecondChatOpened ==
  /\ Len(conversations) = 2
  /\ conversations[1].id # conversations[2].id
  /\ activeChatId = conversations[2].id
  /\ chatIssued = 1
  /\ chatInFlight = {}
  /\ Len(messages) = 1
  /\ messages[1].chat_id = activeChatId

\* The active chat id is the id of an entry of the conversations list
ActiveChatListed ==
  \E i \in 1..Len(conversations) : conversations[i].id = activeChatId

\* C25: activeChatId is null or the id of a listed conversation; whenever it
\* is null on the mounted page it later is the id of a listed conversation;
\* and the chat the effect creates has an id other than that of the
\* conversation deleted before.
C25_ActiveChatRestored ==
  /\ [](activeChatId = Null \/ ActiveChatListed)
  /\ ((chatMounted /\ activeChatId = Null) ~> ActiveChatListed)
  /\ [][NewChatEffects => activeChatId' # deletedChatId]_vars

-----------------------------------------------------------------------------
\* Properties of the dashboard's panels

\* C26: on the mounted dashboard isLoading is true exactly when a POST
\* /visualize request is in flight.
C26_LoadingTracksRequests ==
  dashMounted => (isLoading <=> vizInFlight # {})

\* C27: while the loading indicator or the error panel is shown no chart is
\* shown: isLoading = true or error != null implies chartFigure = null.
C27_NoChartWithLoadingOrError ==
  (isLoading \/ error # Null) => (chartFigure = Null /\ ChartPanel.el = "None")

-----------------------------------------------------------------------------
\* Properties of the auth state

\* C28: token and user are both null or both set, in every state of the
\* provider.
C28_TokenIffUser ==
  (token = Null) <=> (user = Null)

\* Local storage holds a token and the JSON of a user
ValidStored ==
  /\ Truthy(localStorage.floatchat_token)
  /\ Truthy(localStorage.floatchat_user)
  /\ JSONValid(localStorage.floatchat_user)
  /\ Truthy(JSONParse(localStorage.floatchat_user))

\* C29: at a protected path, while loading is true and until the provider's
\* mount effect has run, the gate renders its loading placeholder, neither
\* the page nor the redirect; and when the mount effect runs with a stored
\* token and user, what is rendered next is the page.
C29_NoRedirectWhileLoading ==
  /\ []((location \in ProtectedPaths /\ (loading \/ ~authMounted)) => view = "Loading")
  /\ [][(AuthMountEffect /\ location \in ProtectedPaths /\ ValidStored)
          => view' = PageOf(location)]_vars

\* C29 (witness): after a reload at /chat with the session a signIn stored,
\* the chat page is rendered
C29_PageAfterReload ==
  /\ reloads >= 1
  /\ authMounted
  /\ ~loading
  /\ location = "/chat"
  /\ view = "ChatbotPage"
  /\ session.s = "in"
  /\ ValidStored

====
